---- MODULE Spec2Model ----
(***************************************************************************)
(* Model of perspector: the anchor classifier (projectable), the           *)
(* homography estimator (make_transform_matrix) and the resampler          *)
(* (perspector) of src/src/perspector.c.                                   *)
(*                                                                         *)
(* A pixel is a pair <<x, y>> of integers.  A pixelset is a 4-tuple of     *)
(* pixels (count is always 4 where the core runs).  A rect is a record     *)
(* [bl, br, tr, tl] of pixels.                                             *)
(***************************************************************************)
EXTENDS Integers, Sequences, FiniteSets, TLC

\* Largest coordinate of an anchor handed to the classifier.
MaxCoord == 3
\* The source raster of a perspector call is (MaxSrc + 1) x (MaxSrc + 1).
MaxSrc == 2
\* Largest destination width and height whose raster is resampled.
MaxSink == 3
\* A destination width and height whose product exceeds COORD_MAX.
BigDim == 65536

\* #define COORD_MAX INT32_MAX
COORD_MAX == 2147483647

VARIABLES
    pc,          \* position of the caller: "call" before, "ret" after projectable
    anchors,     \* the caller's pixelset, in storage order
    order,       \* projectable's angular order (diagonal case only)
    branch,      \* which branch of projectable produced the result
    x_ok,        \* diagonal case: the x-split candidate passed
    y_ok,        \* diagonal case: the y-split candidate passed
    status,      \* projectable's return value
    written,     \* whether projectable wrote *result
    result,      \* the caller's rect (meaningful only when written)
    sink_width,  \* perspector's arguments
    sink_height,
    transform_matrix,  \* the 9 values make_transform_matrix wrote, row-major
    mask_allocated,    \* transformed_mask is allocated (and not yet freed)
    marked,      \* the cells <<x, y>> whose transformed_mask entry is true
    sink_data,   \* the cells perspector has written, with the value written
    fk,          \* forward pass: number of source pixels already processed
    gk,          \* gap-filling pass: number of destination cells already visited
    ret,         \* perspector's return value
    fail,        \* why perspector returned false
    added,       \* the anchors of the window in the order they were added
    sink,        \* the window's result surface: "absent" (NULL) or "present"
    label,       \* the text of the status label
    ratio_w,     \* the number read from the Width entry
    ratio_h,     \* the number read from the Height entry
    last_process \* how the last Process event since the last written file ended

classifier_vars == <<order, branch, x_ok, y_ok, status, written, result>>
resampler_vars == <<sink_width, sink_height, transform_matrix, mask_allocated,
                    marked, sink_data, fk, gk, ret, fail>>
gui_vars == <<added, sink, label, ratio_w, ratio_h, last_process>>
vars == <<pc, anchors, classifier_vars, resampler_vars, gui_vars>>

----------------------------------------------------------------------------
(* Data *)

Coords == 0..MaxCoord
Pixels == Coords \X Coords

\* typedef enum position (perspector.c:50-56)
LEFT == 1
RIGHT == 2
EQUAL == 4
OPPOSED == 8
UNDEF == 16

Idx == 1..4
Perms4 == Permutations(Idx)

Rect(bl, br, tr, tl) == [bl |-> bl, br |-> br, tr |-> tr, tl |-> tl]

\* The caller's rect before projectable writes it: uninitialised storage,
\* never read by the model while written = FALSE.
NoPixel == <<-1, -1>>
NoRect == Rect(NoPixel, NoPixel, NoPixel, NoPixel)
NoSet == <<NoPixel, NoPixel, NoPixel, NoPixel>>
\* transform_matrix before make_transform_matrix fills it.
NoMatrix == <<0, 0, 0, 0, 0, 0, 0, 0, 0>>

\* The window's state at start: no result surface, an empty status label and
\* the ratio entries set to "1".
GuiInitial ==
    /\ added = <<>>
    /\ sink = "absent"
    /\ label = ""
    /\ ratio_w = 0
    /\ ratio_h = 0
    /\ last_process = "none"

----------------------------------------------------------------------------
(* Sorting by one coordinate *)

comparex(a, b) == a[1] - b[1]
comparey(a, b) == a[2] - b[2]

\* psort: qsort of the 4 pixels with comparex or comparey.  qsort leaves the
\* order of elements that compare equal unspecified, so the model returns the
\* set of all arrangements of the input that are sorted under the comparator.
psort(set, dir) ==
    { [i \in Idx |-> set[p[i]]] : p \in
        { q \in Perms4 : \A i \in 1..3 :
            IF dir = "DIR_X"
            THEN comparex(set[q[i]], set[q[i + 1]]) <= 0
            ELSE comparey(set[q[i]], set[q[i + 1]]) <= 0 } }

----------------------------------------------------------------------------
(* Angular comparison around the barycentre *)

\* The code works with doubles bar = sum / 4 and vectors p - bar.  All of the
\* tests of pos are homogeneous in the vectors, so the model keeps every
\* vector multiplied by 4: Bar4 is 4 * bar and Rel4(p, bar4) is 4 * (p - bar),
\* both integers.
Bar4(a, b, c, d) == <<a[1] + b[1] + c[1] + d[1], a[2] + b[2] + c[2] + d[2]>>
Rel4(p, bar4) == <<4 * p[1] - bar4[1], 4 * p[2] - bar4[2]>>

\* y < num / den and y > num / den over the reals, den # 0.
LtQuot(y, num, den) == IF den > 0 THEN y * den < num ELSE y * den > num
GtQuot(y, num, den) == IF den > 0 THEN y * den > num ELSE y * den < num

\* Position of point p compared to the vector refn.
pos(p, refn) ==
    IF (p[1] = 0 /\ p[2] = 0) \/ (refn[1] = 0 /\ refn[2] = 0) THEN UNDEF
    ELSE IF p[2] * refn[1] - refn[2] * p[1] = 0
         THEN (IF p[1] * refn[1] > 0 THEN EQUAL ELSE OPPOSED)
    ELSE IF refn[1] = 0
         THEN (IF (refn[2] > 0 /\ p[1] < 0) \/ (refn[2] < 0 /\ p[1] > 0)
               THEN LEFT ELSE RIGHT)
    ELSE IF (refn[1] < 0 /\ LtQuot(p[2], p[1] * refn[2], refn[1]))
            \/ (refn[1] > 0 /\ GtQuot(p[2], p[1] * refn[2], refn[1]))
         THEN LEFT
    ELSE RIGHT

\* compare_angle with the globals ref and bar made parameters.
compare_angle(a, b, ref, bar4) ==
    LET refn == Rel4(ref, bar4)
        an == Rel4(a, bar4)
        bn == Rel4(b, bar4)
        an_refn == pos(an, refn)
        an_bn == pos(an, bn)
        bn_refn == pos(bn, refn)
    IN  IF an_bn = EQUAL \/ an_bn = UNDEF THEN 0
        ELSE IF an_refn = EQUAL
                \/ (bn_refn = LEFT /\ an_refn = LEFT /\ an_bn = RIGHT)
                \/ (bn_refn = RIGHT /\ (an_bn = RIGHT \/ an_refn = LEFT))
                \/ (bn_refn = OPPOSED /\ an_refn = LEFT)
             THEN -1
        ELSE 1

\* Whether compare_angle is a consistent ordering of the 4 pixels (what
\* qsort requires of its comparator): antisymmetric, and transitive both for
\* "less" and for "equal".
ConsistentAngle(set, ref, bar4) ==
    /\ \A i, j \in Idx : i # j =>
          compare_angle(set[i], set[j], ref, bar4)
            = 0 - compare_angle(set[j], set[i], ref, bar4)
    /\ \A i, j, k \in Idx : (i # j /\ j # k /\ i # k) =>
          /\ (compare_angle(set[i], set[j], ref, bar4) < 0
              /\ compare_angle(set[j], set[k], ref, bar4) < 0)
                => compare_angle(set[i], set[k], ref, bar4) < 0
          /\ (compare_angle(set[i], set[j], ref, bar4) = 0
              /\ compare_angle(set[j], set[k], ref, bar4) = 0)
                => compare_angle(set[i], set[k], ref, bar4) = 0

\* qsort(order.pixels, 4, sizeof (pixel), compare_angle).  With a consistent
\* comparator the result is any arrangement sorted under it (ties in any
\* order).  With an inconsistent comparator the behaviour of qsort is
\* undefined; every build returns some arrangement of the input, so the
\* model allows every permutation.
qsort_angle(set, ref, bar4) ==
    IF ConsistentAngle(set, ref, bar4)
    THEN { [i \in Idx |-> set[p[i]]] : p \in
            { q \in Perms4 : \A i, j \in Idx : i < j =>
                compare_angle(set[q[i]], set[q[j]], ref, bar4) <= 0 } }
    ELSE { [i \in Idx |-> set[p[i]]] : p \in Perms4 }

\* check_order: i is the first index (0-based) with order[i] = bl, or count
\* when there is none; then the three following slots (mod 4) are compared.
check_order(ord, bl, br, tr, tl) ==
    LET hits == {k \in 0..3 : ord[k + 1] = bl}
        i == IF hits = {} THEN 4 ELSE CHOOSE k \in hits : \A m \in hits : k <= m
        at(offset) == ord[((i + offset) % 4) + 1]
    IN  at(1) = br /\ at(2) = tr /\ at(3) = tl

----------------------------------------------------------------------------
(* projectable *)

\* XSplit with the top-left corner taken from the wrong slot.
XSplitDup(xs) ==
    LET lo == IF xs[1][2] < xs[2][2] THEN <<xs[1], xs[2]>> ELSE <<xs[2], xs[1]>>
        hi == IF xs[3][2] < xs[4][2] THEN <<xs[3], xs[4]>> ELSE <<xs[4], xs[3]>>
    IN  Rect(lo[1], hi[1], hi[2], lo[1])

\* The split along x then y: the x-low pair gives bl/tl, the x-high pair
\* gives br/tr (perspector.c:205-218 and 275-289).
XSplit(xs) ==
    LET lo == IF xs[1][2] < xs[2][2] THEN <<xs[1], xs[2]>> ELSE <<xs[2], xs[1]>>
        hi == IF xs[3][2] < xs[4][2] THEN <<xs[3], xs[4]>> ELSE <<xs[4], xs[3]>>
    IN  Rect(lo[1], hi[1], hi[2], lo[2])

\* The split along y then x: the y-low pair gives bl/br, the y-high pair
\* gives tl/tr (perspector.c:302-316).
YSplit(ys) ==
    LET lo == IF ys[1][1] < ys[2][1] THEN <<ys[1], ys[2]>> ELSE <<ys[2], ys[1]>>
        hi == IF ys[3][1] < ys[4][1] THEN <<ys[3], ys[4]>> ELSE <<ys[4], ys[3]>>
    IN  Rect(lo[1], lo[2], hi[2], hi[1])

\* DirectCond without its last test.
DirectCondNoHigh(xs) ==
    /\ xs[2][1] # xs[3][1]
    /\ (xs[1][2] < xs[3][2] \/ xs[1][2] < xs[4][2]
        \/ xs[2][2] < xs[3][2] \/ xs[2][2] < xs[4][2])
    /\ (xs[1][2] > xs[3][2] \/ xs[1][2] > xs[4][2]
        \/ xs[2][2] > xs[3][2] \/ xs[2][2] > xs[4][2])

\* The condition of the first branch (perspector.c:193-202).
DirectCond(xs) ==
    /\ xs[2][1] # xs[3][1]
    /\ (xs[1][2] < xs[3][2] \/ xs[1][2] < xs[4][2]
        \/ xs[2][2] < xs[3][2] \/ xs[2][2] < xs[4][2])
    /\ (xs[1][2] > xs[3][2] \/ xs[1][2] > xs[4][2]
        \/ xs[2][2] > xs[3][2] \/ xs[2][2] > xs[4][2])
    /\ xs[3][2] # xs[4][2]

\* The condition of the second branch (perspector.c:222-223).
SplitAxisCond(xs, ys) == xs[2][1] = xs[3][1] \/ ys[2][2] = ys[3][2]

\* The test of perspector.c:248-256.  UNDESIRED is the bitwise or of three
\* distinct bits, i.e. their sum, and each pos(...) is compared with it by ==.
UNDESIRED == EQUAL + OPPOSED + UNDEF
UndesiredCond(set, bar4) ==
    LET an == Rel4(set[1], bar4)
        bn == Rel4(set[2], bar4)
        cn == Rel4(set[3], bar4)
        dn == Rel4(set[4], bar4)
    IN  \/ pos(an, bn) = UNDESIRED
        \/ pos(an, cn) = UNDESIRED
        \/ pos(an, dn) = UNDESIRED
        \/ pos(bn, cn) = UNDESIRED
        \/ pos(bn, dn) = UNDESIRED
        \/ pos(cn, dn) = UNDESIRED

XValid(xs) == xs[2][1] # xs[3][1] /\ xs[1][2] # xs[2][2] /\ xs[3][2] # xs[4][2]
YValid(ys) == ys[2][2] # ys[3][2] /\ ys[1][1] # ys[2][1] /\ ys[3][1] # ys[4][1]

Outcome(st, wr, res, br, ord, xo, yo) ==
    [status |-> st, written |-> wr, result |-> res, branch |-> br,
     order |-> ord, x_ok |-> xo, y_ok |-> yo]

\* DiagonalReturn that accepts the x-split candidate whenever it passed.
DiagonalReturnBoth(xs, ys, ord, xo, yo) ==
    IF yo /\ ~xo THEN Outcome(TRUE, TRUE, YSplit(ys), "diagonal", ord, xo, yo)
    ELSE IF xo THEN Outcome(TRUE, TRUE, XSplit(xs), "diagonal", ord, xo, yo)
    ELSE Outcome(FALSE, FALSE, NoRect, "diagonal", ord, xo, yo)

\* The last step of the diagonal case (perspector.c:323-332).
DiagonalReturn(xs, ys, ord, xo, yo) ==
    IF yo /\ ~xo THEN Outcome(TRUE, TRUE, YSplit(ys), "diagonal", ord, xo, yo)
    ELSE IF ~yo /\ xo THEN Outcome(TRUE, TRUE, XSplit(xs), "diagonal", ord, xo, yo)
    ELSE Outcome(FALSE, FALSE, NoRect, "diagonal", ord, xo, yo)

\* The diagonal case for given sorted copies: one outcome per result of the
\* angular qsort.
Diagonal(set, xs, ys) ==
    LET bar4 == Bar4(set[1], set[2], set[3], set[4])
    IN  IF UndesiredCond(set, bar4)
        THEN {Outcome(FALSE, FALSE, NoRect, "undesired", NoSet, FALSE, FALSE)}
        ELSE { DiagonalReturn(xs, ys, ord,
                   XValid(xs) /\ check_order(ord, XSplit(xs).bl, XSplit(xs).br,
                                             XSplit(xs).tr, XSplit(xs).tl),
                   YValid(ys) /\ check_order(ord, YSplit(ys).bl, YSplit(ys).br,
                                             YSplit(ys).tr, YSplit(ys).tl))
               : ord \in qsort_angle(set, set[1], bar4) }

\* projectable for given results of the two psort calls.
ProjectableWith(set, xs, ys) ==
    IF DirectCond(xs)
    THEN {Outcome(TRUE, TRUE, XSplit(xs), "direct", NoSet, FALSE, FALSE)}
    ELSE IF SplitAxisCond(xs, ys)
    THEN {Outcome(FALSE, FALSE, NoRect, "split_axis", NoSet, FALSE, FALSE)}
    ELSE Diagonal(set, xs, ys)

\* Every outcome projectable can produce on the pixelset `set`.
projectable(set) ==
    UNION { ProjectableWith(set, xs, ys) :
            xs \in psort(set, "DIR_X"), ys \in psort(set, "DIR_Y") }

----------------------------------------------------------------------------
(* The classifier called on every order of every 4 distinct pixels *)

Distinct(set) == \A i, j \in Idx : i # j => set[i] # set[j]

\* The classifier reads only differences of coordinates (comparex, comparey,
\* the vectors from the barycentre), so the inputs are taken up to
\* translation: the bounding box of the anchors touches both axes.
TouchesAxes(set) ==
    /\ \E i \in Idx : set[i][1] = 0
    /\ \E i \in Idx : set[i][2] = 0

AnchorInputs == {a \in [Idx -> Pixels] : Distinct(a) /\ TouchesAxes(a)}

InitProjectable ==
    /\ pc = "call"
    /\ anchors \in AnchorInputs
    /\ order = NoSet
    /\ branch = "none"
    /\ x_ok = FALSE
    /\ y_ok = FALSE
    /\ status = FALSE
    /\ written = FALSE
    /\ result = NoRect
    /\ sink_width = 0
    /\ sink_height = 0
    /\ transform_matrix = NoMatrix
    /\ mask_allocated = FALSE
    /\ marked = {}
    /\ sink_data = <<>>
    /\ fk = 0
    /\ gk = 0
    /\ ret = FALSE
    /\ fail = "none"
    /\ GuiInitial

CallProjectable ==
    /\ UNCHANGED gui_vars
    /\ pc = "call"
    /\ \E o \in projectable(anchors) :
        /\ order' = o.order
        /\ branch' = o.branch
        /\ x_ok' = o.x_ok
        /\ y_ok' = o.y_ok
        /\ status' = o.status
        /\ written' = o.written
        /\ result' = o.result
    /\ pc' = "ret"
    /\ UNCHANGED <<anchors, resampler_vars>>

NextProjectable == CallProjectable

SpecProjectable == InitProjectable /\ [][NextProjectable]_vars

-----------------------------------------------------------------------------
(* Homography estimation: init_system_equation and make_transform_matrix *)

\* One MATRIX_ROW of the system: the equation of destination coordinate
\* `which` (0 = x, 1 = y) of anchor p with destination value t.
MATRIX_ROW(p, which, t) ==
    IF which = 0
    THEN <<p[1], p[2], 1, 0, 0, 0, -t * p[1], -t * p[2], -t>>
    ELSE <<0, 0, 0, p[1], p[2], 1, -t * p[1], -t * p[2], -t>>

\* The 9 x 9 system: 8 equations, bl -> (0, 0), br -> (w, 0), tr -> (w, h),
\* tl -> (0, h); the cells that are not defined are 0, so row 8 is zero.
init_system_equation(bl, br, tr, tl, width, height) ==
    << MATRIX_ROW(bl, 0, 0),
       MATRIX_ROW(bl, 1, 0),
       MATRIX_ROW(br, 0, width),
       MATRIX_ROW(br, 1, 0),
       MATRIX_ROW(tr, 0, width),
       MATRIX_ROW(tr, 1, height),
       MATRIX_ROW(tl, 0, 0),
       MATRIX_ROW(tl, 1, height),
       <<0, 0, 0, 0, 0, 0, 0, 0, 0>> >>

Dot9(a, b) ==
    a[1] * b[1] + a[2] * b[2] + a[3] * b[3] + a[4] * b[4] + a[5] * b[5]
      + a[6] * b[6] + a[7] * b[7] + a[8] * b[8] + a[9] * b[9]

\* m solves the homogeneous system: the right singular vectors of singular
\* value 0 are exactly these vectors.
IsNullVector(system, m) == \A r \in 1..9 : Dot9(system[r], m) = 0

Hom(p) == <<p[1], p[2], 1>>
Det3(a, b, c) ==
    a[1] * (b[2] * c[3] - b[3] * c[2]) - b[1] * (a[2] * c[3] - a[3] * c[2])
      + c[1] * (a[2] * b[3] - a[3] * b[2])
Cross3(a, b) ==
    <<a[2] * b[3] - a[3] * b[2], a[3] * b[1] - a[1] * b[3],
      a[1] * b[2] - a[2] * b[1]>>
Scale3(k, v) == <<k * v[1], k * v[2], k * v[3]>>

\* The solution of the system in integers, as the 3 rows of a matrix: the
\* projective map taking bl, br, tr, tl to the corners of the unit square,
\* scaled by width and height.  It is the adjugate of the matrix whose columns
\* are the anchors bl, br, tr weighted so that their sum is tl, combined with
\* the same matrix of the unit square (columns (0,0,1), (-1,0,-1), (1,1,1)).
\* A singular value decomposition returns this vector normalised to length 1;
\* the scale cancels in the division by the third component.
Solution(bl, br, tr, tl, width, height) ==
    LET a1 == Scale3(Det3(Hom(tl), Hom(br), Hom(tr)), Hom(bl))
        a2 == Scale3(Det3(Hom(bl), Hom(tl), Hom(tr)), Hom(br))
        a3 == Scale3(Det3(Hom(bl), Hom(br), Hom(tl)), Hom(tr))
        adj1 == Cross3(a2, a3)
        adj2 == Cross3(a3, a1)
        adj3 == Cross3(a1, a2)
    IN  << width * (adj3[1] - adj2[1]), width * (adj3[2] - adj2[2]),
           width * (adj3[3] - adj2[3]),
           height * adj3[1], height * adj3[2], height * adj3[3],
           adj1[1] - adj2[1] + adj3[1], adj1[2] - adj2[2] + adj3[2],
           adj1[3] - adj2[3] + adj3[3] >>

\* Vectors t of the rank-deficient solutions t * line (see SV_last_column).
DegenerateImages == {<<0, 0, 1>>, <<1, 1, 1>>, <<1, 0, 0>>}

\* gsl_linalg_SV_decomp followed by the copy of the last column of v: the
\* right singular vector of the smallest singular value.  The system has
\* rank 8 unless the 4 vertices are collinear, and then that vector is the
\* solution above (up to scale).  When the 4 vertices are collinear the
\* singular value 0 is multiple and the decomposition may return any unit
\* vector of the null space: the outcomes kept here are the matrices
\* t * line, line being the line through the vertices, which map every
\* pixel off the line to the point t and every pixel of the line to the
\* zero vector.  No outcome is an error: the function has no failure path.
SV_last_column(system, bl, br, tr, tl, width, height) ==
    LET sol == Solution(bl, br, tr, tl, width, height)
        line == Cross3(Hom(bl), Hom(tr))
        candidates ==
            IF sol # NoMatrix
            THEN {sol}
            ELSE { <<t[1] * line[1], t[1] * line[2], t[1] * line[3],
                     t[2] * line[1], t[2] * line[2], t[2] * line[3],
                     t[3] * line[1], t[3] * line[2], t[3] * line[3]>> :
                   t \in DegenerateImages }
    IN  {m \in candidates : IsNullVector(system, m)}

\* make_transform_matrix: the outcomes of the classifier, each with the
\* matrices the decomposition can write.  A failed classification writes no
\* matrix; a successful one always returns true.
make_transform_matrix(set, width, height) ==
    { [status |-> o.status, outcome |-> o, matrix |-> m] :
        o \in {c \in projectable(set) : ~c.status}, m \in {NoMatrix} }
    \cup
    UNION { { [status |-> TRUE, outcome |-> o, matrix |-> m] :
                m \in SV_last_column(
                        init_system_equation(o.result.bl, o.result.br,
                                             o.result.tr, o.result.tl,
                                             width, height),
                        o.result.bl, o.result.br, o.result.tr, o.result.tl,
                        width, height) } :
            o \in {c \in projectable(set) : c.status} }

-----------------------------------------------------------------------------
(* Resampling: perspector *)

\* The source raster: bg_width x bg_height pixels of one channel, the pixel
\* (x, y) holding the value y * bg_width + x + 1.
bg_width == MaxSrc + 1
bg_height == MaxSrc + 1
bg_data(x, y) == y * bg_width + x + 1

Abs(n) == IF n < 0 THEN -n ELSE n
Sign(n) == IF n < 0 THEN -1 ELSE 1

\* pout = transform_matrix * (x, y, 1)  (gsl_blas_dgemv).
pout(m, x, y) ==
    << m[1] * x + m[2] * y + m[3],
       m[4] * x + m[5] * y + m[6],
       m[7] * x + m[8] * y + m[9] >>

\* round(a / b) for b # 0, as a set of values.  round() rounds halves away
\* from zero; the quotient is computed in double precision from a matrix
\* with rounding errors, so a quotient that is exactly a half in exact
\* arithmetic comes out on either side of it and both neighbours are
\* outcomes.  Every other quotient rounds to its nearest integer.
round_quot(a, b) ==
    LET s == Sign(a) * Sign(b)
        n == Abs(a)
        d == Abs(b)
        lo == n \div d
    IN  IF 2 * (n % d) < d THEN {s * lo}
        ELSE IF 2 * (n % d) > d THEN {s * (lo + 1)}
        ELSE {s * lo, s * (lo + 1)}

\* The destination cells of a raster of the given size.
Cells(width, height) == (0..(width - 1)) \X (0..(height - 1))
InBounds(c, width, height) ==
    c[1] >= 0 /\ c[2] >= 0 /\ c[1] < width /\ c[2] < height

\* x2, y2 when pout[2] is 0 in exact arithmetic: the computed quotient is a
\* quotient of rounding errors (or 0/0) and any position can come out.  The
\* outcomes kept are a position out of bounds (NoPixel), the first cell and
\* the last cell of the destination.
GarbageImages(width, height) ==
    {NoPixel} \cup (Cells(width, height)
                     \cap {<<0, 0>>, <<width - 1, height - 1>>})

\* (x2, y2) of source pixel (x, y): the rounded quotients.
Images(m, x, y, width, height) ==
    LET p == pout(m, x, y)
    IN  IF p[3] = 0
        THEN GarbageImages(width, height)
        ELSE round_quot(p[1], p[3]) \X round_quot(p[2], p[3])

\* The square window of one radius around (x, y), clipped to the raster.
Window(x, y, radius, width, height) ==
    [ x_min |-> IF x - radius < 0 THEN 0 ELSE x - radius,
      x_max |-> IF x + radius >= width THEN width - 1 ELSE x + radius,
      y_min |-> IF y - radius < 0 THEN 0 ELSE y - radius,
      y_max |-> IF y + radius >= height THEN height - 1 ELSE y + radius ]

RECURSIVE SumOver(_, _)
SumOver(cells, data) ==
    IF cells = {} THEN 0
    ELSE LET c == CHOOSE e \in cells : TRUE
         IN  data[c] + SumOver(cells \ {c}, data)

\* The marked cells met by the first pair of loops (columns x_min and x_max)
\* and by the second pair (rows y_min and y_max).
ColumnHits(win, mask) ==
    {c \in mask : c[1] \in {win.x_min, win.x_max}
                  /\ c[2] >= win.y_min /\ c[2] <= win.y_max}
RowHits(win, mask) ==
    {c \in mask : c[2] \in {win.y_min, win.y_max}
                  /\ c[1] >= win.x_min /\ c[1] <= win.x_max}

\* The search of one unmarked cell, from the given radius on.  The loop over
\* i steps by x_max - x_min and the loop over j by y_max - y_min: a step of 0
\* never leaves the loop.  With non-zero steps each loop visits its two
\* columns (rows) and count and the sum add up the column hits and the row
\* hits.  The search ends at the first radius with count # 0; once the
\* window is the whole raster a larger radius scans the same cells, so with
\* no hit there the radius grows without end.
RECURSIVE gap_search_written(_, _, _, _, _, _, _)
gap_search_written(x, y, radius, width, height, mask, data) ==
    LET win == Window(x, y, radius, width, height)
        cols == ColumnHits(win, DOMAIN data)
        rows == RowHits(win, DOMAIN data)
        count == Cardinality(cols) + Cardinality(rows)
    IN  IF win.x_max = win.x_min \/ win.y_max = win.y_min
        THEN [hang |-> TRUE, radius |-> radius, count |-> 0, sum |-> 0]
        ELSE IF count # 0
        THEN [hang |-> FALSE, radius |-> radius, count |-> count,
              sum |-> SumOver(cols, data) + SumOver(rows, data)]
        ELSE IF win.x_min = 0 /\ win.y_min = 0
                /\ win.x_max = width - 1 /\ win.y_max = height - 1
        THEN [hang |-> TRUE, radius |-> radius, count |-> 0, sum |-> 0]
        ELSE gap_search_written(x, y, radius + 1, width, height, mask, data)

RECURSIVE gap_search(_, _, _, _, _, _, _)
gap_search(x, y, radius, width, height, mask, data) ==
    LET win == Window(x, y, radius, width, height)
        cols == ColumnHits(win, mask)
        rows == RowHits(win, mask)
        count == Cardinality(cols) + Cardinality(rows)
    IN  IF win.x_max = win.x_min \/ win.y_max = win.y_min
        THEN [hang |-> TRUE, radius |-> radius, count |-> 0, sum |-> 0]
        ELSE IF count # 0
        THEN [hang |-> FALSE, radius |-> radius, count |-> count,
              sum |-> SumOver(cols, data) + SumOver(rows, data)]
        ELSE IF win.x_min = 0 /\ win.y_min = 0
                /\ win.x_max = width - 1 /\ win.y_max = height - 1
        THEN [hang |-> TRUE, radius |-> radius, count |-> 0, sum |-> 0]
        ELSE gap_search(x, y, radius + 1, width, height, mask, data)

\* The value perspector returns after the two passes.
FinalStatusFalse == FALSE
FinalStatus == TRUE

\* perspector is called with 4 distinct anchors inside the source raster and
\* a destination size: every size up to MaxSink x MaxSink, and one size
\* whose product does not fit a coord.
SrcPixels == (0..(bg_width - 1)) \X (0..(bg_height - 1))
Lex(a, b) == a[1] < b[1] \/ (a[1] = b[1] /\ a[2] < b[2])
RasterAnchors ==
    {a \in [Idx -> SrcPixels] : \A i \in 1..3 : Lex(a[i], a[i + 1])}
SinkSizes == ((0..MaxSink) \X (0..MaxSink)) \cup {<<BigDim, BigDim>>}

InitPerspector ==
    /\ pc = "entry"
    /\ anchors \in RasterAnchors
    /\ \E s \in SinkSizes : sink_width = s[1] /\ sink_height = s[2]
    /\ order = NoSet
    /\ branch = "none"
    /\ x_ok = FALSE
    /\ y_ok = FALSE
    /\ status = FALSE
    /\ written = FALSE
    /\ result = NoRect
    /\ transform_matrix = NoMatrix
    /\ mask_allocated = FALSE
    /\ marked = {}
    /\ sink_data = <<>>
    /\ fk = 0
    /\ gk = 0
    /\ ret = FALSE
    /\ fail = "none"
    /\ GuiInitial

\* Return from perspector with the given value.
Return(value, why) ==
    /\ pc' = "done"
    /\ ret' = value
    /\ fail' = why

\* The call of make_transform_matrix and the test of its status.
MakeTransformMatrix ==
    /\ UNCHANGED gui_vars
    /\ pc = "entry"
    /\ \E r \in make_transform_matrix(anchors, sink_width, sink_height) :
        /\ order' = r.outcome.order
        /\ branch' = r.outcome.branch
        /\ x_ok' = r.outcome.x_ok
        /\ y_ok' = r.outcome.y_ok
        /\ status' = r.outcome.status
        /\ written' = r.outcome.written
        /\ result' = r.outcome.result
        /\ transform_matrix' = r.matrix
        /\ IF r.status
           THEN pc' = "precheck" /\ UNCHANGED <<ret, fail>>
           ELSE Return(FALSE, "classification")
    /\ UNCHANGED <<anchors, sink_width, sink_height, mask_allocated, marked,
                   sink_data, fk, gk>>

\* if (COORD_MAX / sink_width < sink_height): an integer division, which
\* traps when sink_width is 0.
SizePrecheck ==
    /\ UNCHANGED gui_vars
    /\ pc = "precheck"
    /\ IF sink_width = 0
       THEN pc' = "fault" /\ UNCHANGED <<ret, fail>>
       ELSE IF COORD_MAX \div sink_width < sink_height
       THEN Return(FALSE, "overflow")
       ELSE pc' = "alloc" /\ UNCHANGED <<ret, fail>>
    /\ UNCHANGED <<anchors, classifier_vars, sink_width, sink_height,
                   transform_matrix, mask_allocated, marked, sink_data,
                   fk, gk>>

\* calloc of the mask: it returns a zeroed block or NULL.
AllocMask ==
    /\ UNCHANGED gui_vars
    /\ pc = "alloc"
    /\ \/ /\ mask_allocated' = TRUE
          /\ marked' = {}
          /\ pc' = "forward"
          /\ UNCHANGED <<ret, fail>>
       \/ /\ Return(FALSE, "alloc")
          /\ UNCHANGED <<mask_allocated, marked>>
    /\ UNCHANGED <<anchors, classifier_vars, sink_width, sink_height,
                   transform_matrix, sink_data, fk, gk>>

\* sink_data[y2 * sink_width + x2] = bg_data[y * bg_width + x]: the cell takes
\* the value whether or not it was written before.
forward_write_first(data, c, v) == data @@ (c :> v)
forward_write(data, c, v) == (c :> v) @@ data

\* One iteration of the loops over the source raster, x outermost.
ForwardPixel ==
    /\ UNCHANGED gui_vars
    /\ pc = "forward"
    /\ LET x == fk \div bg_height
           y == fk % bg_height
       IN  \E c \in Images(transform_matrix, x, y, sink_width, sink_height) :
             IF InBounds(c, sink_width, sink_height)
             THEN /\ sink_data' = forward_write(sink_data, c, bg_data(x, y))
                  /\ marked' = marked \cup {c}
             ELSE UNCHANGED <<sink_data, marked>>
    /\ fk' = fk + 1
    /\ pc' = IF fk + 1 = bg_width * bg_height THEN "gap" ELSE "forward"
    /\ UNCHANGED <<anchors, classifier_vars, sink_width, sink_height,
                   transform_matrix, mask_allocated, gk, ret, fail>>

\* One iteration of the loops over the destination raster, x outermost: a
\* marked cell is skipped; an unmarked cell is searched and, when the search
\* ends, assigned the truncated mean.  The mask is not updated.
GapCell ==
    /\ UNCHANGED gui_vars
    /\ pc = "gap"
    /\ gk < sink_width * sink_height
    /\ LET x == gk \div sink_height
           y == gk % sink_height
           s == gap_search(x, y, 1, sink_width, sink_height, marked,
                           sink_data)
       IN  IF <<x, y>> \in marked
           THEN pc' = "gap" /\ gk' = gk + 1 /\ UNCHANGED sink_data
           ELSE IF s.hang
           THEN pc' = "hang" /\ UNCHANGED <<gk, sink_data>>
           ELSE /\ pc' = "gap"
                /\ gk' = gk + 1
                /\ sink_data' = (<<x, y>> :> (s.sum \div s.count)) @@ sink_data
    /\ UNCHANGED <<anchors, classifier_vars, sink_width, sink_height,
                   transform_matrix, mask_allocated, marked, fk, ret, fail>>

\* free(transformed_mask); return true;
ReturnPerspector ==
    /\ UNCHANGED gui_vars
    /\ pc = "gap"
    /\ gk = sink_width * sink_height
    /\ mask_allocated' = FALSE
    /\ Return(FinalStatus, "none")
    /\ UNCHANGED <<anchors, classifier_vars, sink_width, sink_height,
                   transform_matrix, marked, sink_data, fk, gk>>

NextPerspector ==
    \/ MakeTransformMatrix
    \/ SizePrecheck
    \/ AllocMask
    \/ ForwardPixel
    \/ GapCell
    \/ ReturnPerspector

SpecPerspector == InitPerspector /\ [][NextPerspector]_vars

-----------------------------------------------------------------------------
(* The window: event_button_press, event_process and event_write of gui.c *)

\* Largest abscissa of a click in the runs that also process and write.
MaxClick == 1

\* #define BRUSHSZ 10
BRUSHSZ == 10

\* The values of zoom_value(zoom) used: the zoom is changed by scroll events
\* between clicks, which change nothing else of this state.
ZoomValues == {1, 5}

\* coord radius = BRUSHSZ / 2 / z;
hit_radius(z) == (BRUSHSZ \div 2) \div z

Range(seq) == {seq[i] : i \in 1..Len(seq)}

\* The primary button on pixel p: refused when the set is full, ignored when
\* p is already an anchor, appended otherwise.
primary_click_dup(set, p) ==
    IF Len(set) >= 4 THEN set ELSE Append(set, p)
primary_click(set, p) ==
    IF Len(set) >= 4 THEN set
    ELSE IF p \in Range(set) THEN set
    ELSE Append(set, p)

\* Anchor a lies in the hit box of a click on p.
Covers(p, radius, a) ==
    /\ p[1] <= a[1] + radius /\ p[1] >= a[1] - radius
    /\ p[2] <= a[2] + radius /\ p[2] >= a[2] - radius

\* The secondary button on pixel p: the array is scanned from its last
\* element down, and the first anchor in the hit box is overwritten by the
\* last element of the array, which is dropped.
secondary_click(set, p, radius) ==
    LET hits == {i \in 1..Len(set) : Covers(p, radius, set[i])}
    IN  IF hits = {} THEN set
        ELSE LET i == CHOOSE h \in hits : \A g \in hits : g <= h
                 n == Len(set)
             IN  [k \in 1..(n - 1) |-> IF k = i THEN set[n] ELSE set[k]]

\* The order of addition after the same click: the removed anchor leaves it.
RECURSIVE Without(_, _)
Without(seq, a) ==
    IF seq = <<>> THEN <<>>
    ELSE IF Head(seq) = a THEN Tail(seq)
    ELSE <<Head(seq)>> \o Without(Tail(seq), a)

\* The width and height event_process passes to perspector: the bounding box
\* of the anchors, one side replaced according to ratio = ratio_w / ratio_h.
\* The tests compare sink_height with sink_height * ratio; the products are
\* cast back to coord, which truncates.
sink_size(set, rw, rh) ==
    LET xs == {set[i][1] : i \in 1..Len(set)}
        ys == {set[i][2] : i \in 1..Len(set)}
        minx == CHOOSE v \in xs : \A u \in xs : v <= u
        maxx == CHOOSE v \in xs : \A u \in xs : v >= u
        miny == CHOOSE v \in ys : \A u \in ys : v <= u
        maxy == CHOOSE v \in ys : \A u \in ys : v >= u
        width == maxx - minx
        height == maxy - miny
    IN  IF height * rh < height * rw
        THEN <<width, (width * rw) \div rh>>
        ELSE IF height * rh > height * rw
        THEN <<(height * rh) \div rw, height>>
        ELSE <<width, height>>

\* The pixels the clicks land on: two rows of the source, as wide as the
\* source where only clicks are followed, narrower where the anchors are
\* also processed.
AnchorPixels == (0..MaxSrc) \X (0..1)
ClickPixels == (0..MaxClick) \X (0..1)
\* The numbers read in the ratio entries (0 stands for every text strtod
\* reads as a value <= 0).
RatioValues == {0, 1, 2}
\* The formats of the background surface.
Formats == {"ARGB32", "RGB24", "A8"}

\* The locals of perspector and of the functions it calls do not outlive the
\* call.
NoCall ==
    /\ order' = NoSet
    /\ branch' = "none"
    /\ x_ok' = FALSE
    /\ y_ok' = FALSE
    /\ status' = FALSE
    /\ written' = FALSE
    /\ result' = NoRect
    /\ sink_width' = 0
    /\ sink_height' = 0
    /\ transform_matrix' = NoMatrix
    /\ mask_allocated' = FALSE
    /\ marked' = {}
    /\ sink_data' = <<>>
    /\ fk' = 0
    /\ gk' = 0
    /\ ret' = FALSE
    /\ fail' = "none"

InitGui ==
    /\ pc = "idle"
    /\ anchors = <<>>
    /\ order = NoSet
    /\ branch = "none"
    /\ x_ok = FALSE
    /\ y_ok = FALSE
    /\ status = FALSE
    /\ written = FALSE
    /\ result = NoRect
    /\ sink_width = 0
    /\ sink_height = 0
    /\ transform_matrix = NoMatrix
    /\ mask_allocated = FALSE
    /\ marked = {}
    /\ sink_data = <<>>
    /\ fk = 0
    /\ gk = 0
    /\ ret = FALSE
    /\ fail = "none"
    /\ GuiInitial

\* event_button_press with GDK_BUTTON_PRIMARY on pixel p.
PrimaryClick(p) ==
    /\ pc = "idle"
    /\ anchors' = primary_click(anchors, p)
    /\ added' = IF anchors' = anchors THEN added ELSE Append(added, p)
    /\ label' = IF Len(anchors) >= 4
                THEN "Max number of anchors reached."
                ELSE label
    /\ UNCHANGED <<pc, classifier_vars, resampler_vars, sink, ratio_w,
                   ratio_h, last_process>>

\* event_button_press with GDK_BUTTON_SECONDARY on pixel p at zoom value z.
SecondaryClick(p, z) ==
    /\ pc = "idle"
    /\ anchors' = secondary_click(anchors, p, hit_radius(z))
    /\ added' = IF anchors' = anchors THEN added
                ELSE Without(added,
                             CHOOSE a \in Range(anchors) : a \notin Range(anchors'))
    /\ label' = IF anchors' = anchors THEN label ELSE ""
    /\ UNCHANGED <<pc, classifier_vars, resampler_vars, sink, ratio_w,
                   ratio_h, last_process>>

\* An early return of event_process, with its message.
ProcessRefused(text) ==
    /\ label' = text
    /\ last_process' = "failed"
    /\ UNCHANGED <<pc, sink, sink_width, sink_height, ratio_w, ratio_h>>

\* event_process up to the call of perspector, on a background of the given
\* format and with rw and rh the numbers strtod reads in the two ratio
\* entries: the tests of the anchor count, of the format and of the two
\* numbers, the size of the result, the creation of the result surface and
\* the call.
Process(format, rw, rh) ==
    /\ pc = "idle"
    /\ IF Len(anchors) # 4
       THEN ProcessRefused("4 anchors required.")
       ELSE IF format \notin {"RGB24", "ARGB32"}
       THEN ProcessRefused("Unsupported format.")
       ELSE IF rw <= 0
       THEN ProcessRefused("Wrong value for width.")
       ELSE IF rh <= 0
       THEN ProcessRefused("Wrong value for height.")
       ELSE /\ ratio_w' = rw
            /\ ratio_h' = rh
            /\ sink_width' = sink_size(anchors, rw, rh)[1]
            /\ sink_height' = sink_size(anchors, rw, rh)[2]
            /\ sink' = "present"
            /\ pc' = "entry"
            /\ UNCHANGED <<label, last_process>>
    /\ UNCHANGED <<anchors, classifier_vars, transform_matrix, mask_allocated,
                   marked, sink_data, fk, gk, ret, fail, added>>

\* event_process after perspector has returned.
ProcessReturn ==
    /\ pc = "done"
    /\ pc' = "idle"
    /\ IF ret
       THEN /\ label' = "Transformation applied."
            /\ last_process' = "ok"
            /\ UNCHANGED sink
       ELSE /\ label' = "Anchors configuration is not usable."
            /\ last_process' = "failed"
            /\ sink' = "absent"
    /\ NoCall
    /\ ratio_w' = 0
    /\ ratio_h' = 0
    /\ UNCHANGED <<anchors, added>>

\* event_write: cairo_surface_write_to_png succeeds or reports an error.
Write(cstatus) ==
    /\ pc = "idle"
    /\ IF sink = "absent"
       THEN label' = "Apply transformation first."
            /\ UNCHANGED <<sink, last_process>>
       ELSE IF cstatus # "SUCCESS"
       THEN label' = cstatus /\ UNCHANGED <<sink, last_process>>
       ELSE /\ sink' = "absent"
            /\ label' = "File succesfully written."
            /\ last_process' = "none"
    /\ UNCHANGED <<pc, anchors, classifier_vars, resampler_vars, added,
                   ratio_w, ratio_h>>

\* The clicks alone.
NextAnchors ==
    \/ \E p \in AnchorPixels : PrimaryClick(p)
    \/ \E p \in AnchorPixels : \E z \in ZoomValues : SecondaryClick(p, z)

SpecAnchors == InitGui /\ [][NextAnchors]_vars

\* The window with its Process and Write buttons; perspector runs inside
\* event_process, and no other event is handled until it returns.
NextGui ==
    \/ \E p \in ClickPixels : PrimaryClick(p)
    \/ \E p \in ClickPixels : \E z \in ZoomValues : SecondaryClick(p, z)
    \/ \E format \in Formats : \E rw, rh \in RatioValues :
           Process(format, rw, rh)
    \/ NextPerspector
    \/ ProcessReturn
    \/ \E cstatus \in {"SUCCESS", "WRITE_ERROR"} : Write(cstatus)

SpecGui == InitGui /\ [][NextGui]_vars

----------------------------------------------------------------------------
(* Properties of the classifier *)

Returned == pc = "ret"
Corners(r) == <<r.bl, r.br, r.tr, r.tl>>

\* Coordinate c (1 = x, 2 = y) of the anchors: how many lie strictly below or
\* above the value v, and whether the two middle values of the sorted
\* coordinates are equal.
Below(set, c, v) == Cardinality({i \in Idx : set[i][c] < v})
Above(set, c, v) == Cardinality({i \in Idx : set[i][c] > v})
MiddleEqual(set, c) ==
    \E i \in Idx :
        /\ Below(set, c, set[i][c]) <= 1
        /\ Above(set, c, set[i][c]) <= 1
        /\ Below(set, c, set[i][c]) + Above(set, c, set[i][c]) <= 2

\* When the middle x-values differ: the y-values of the x-low pair and of the
\* x-high pair.
LowPair(set) == {i \in Idx : Below(set, 1, set[i][1]) <= 1}
LowY(set) == {set[i][2] : i \in LowPair(set)}
HighY(set) == {set[i][2] : i \in Idx \ LowPair(set)}
Separated(set) ==
    \/ \A a \in LowY(set), b \in HighY(set) : a < b
    \/ \A a \in LowY(set), b \in HighY(set) : a > b
Interleaved(set) ==
    /\ \E a \in LowY(set), b \in HighY(set) : a < b
    /\ \E a \in LowY(set), b \in HighY(set) : a > b

IsRotation(r, ord) ==
    \E k \in 0..3 : \A j \in 0..3 : Corners(r)[j + 1] = ord[((j + k) % 4) + 1]

InDiagonalCase == Returned /\ branch \notin {"direct", "split_axis"}

\* C1: whenever projectable returns true, the rect (bl, br, tr, tl) is a
\* permutation of the 4 input anchors: each anchor gets exactly one label.
C1_RectIsPermutation ==
    (Returned /\ status) =>
        /\ written
        /\ \E p \in Perms4 : \A i \in Idx : Corners(result)[i] = anchors[p[i]]

C1_Witness == Returned /\ status /\ branch = "diagonal" /\ y_ok

\* C2: if the two middle x-values or the two middle y-values of the anchors
\* are equal, projectable returns false.
C2_MiddleEqualFails ==
    (Returned /\ (MiddleEqual(anchors, 1) \/ MiddleEqual(anchors, 2))) => ~status

\* C3: in the diagonal case, if some pair of anchors has centroid-relative
\* vectors in relation EQUAL, OPPOSED or UNDEF, projectable returns false.
SomePairUndesired(set) ==
    LET bar4 == Bar4(set[1], set[2], set[3], set[4])
    IN  \E i, j \in Idx :
            /\ i < j
            /\ pos(Rel4(set[i], bar4), Rel4(set[j], bar4)) \in {EQUAL, OPPOSED, UNDEF}

C3_UndesiredPairFails ==
    (InDiagonalCase /\ SomePairUndesired(anchors)) => ~status

\* C4: in the diagonal case projectable returns true exactly when one and
\* only one of the two candidates is valid and is a rotation of the angular
\* order; the rect is then that candidate; otherwise the rect is not written.
C4_ExactlyOneCandidate ==
    InDiagonalCase =>
        \A xs \in psort(anchors, "DIR_X"), ys \in psort(anchors, "DIR_Y") :
            LET xpass == XValid(xs) /\ IsRotation(XSplit(xs), order)
                ypass == YValid(ys) /\ IsRotation(YSplit(ys), order)
            IN  /\ status <=> (xpass # ypass)
                /\ (status /\ xpass) => (written /\ result = XSplit(xs))
                /\ (status /\ ypass) => (written /\ result = YSplit(ys))
                /\ ~status => ~written

C4_Witness == InDiagonalCase /\ status /\ x_ok /\ ~y_ok

C6_OrderIndependent ==
    Returned =>
        \A p \in Perms4 :
            \A o \in projectable([i \in Idx |-> anchors[p[i]]]) :
                /\ o.status = status
                /\ status => o.result = result

\* C7: 4 anchors on one straight line are rejected.
Cross(p, q, r) == (q[1] - p[1]) * (r[2] - p[2]) - (q[2] - p[2]) * (r[1] - p[1])
Collinear(set) ==
    Cross(set[1], set[2], set[3]) = 0 /\ Cross(set[1], set[2], set[4]) = 0

C7_CollinearFails == (Returned /\ Collinear(anchors)) => ~status

-----------------------------------------------------------------------------
(* Properties of the estimator and of the resampler *)

\* make_transform_matrix returned true and wrote transform_matrix.
Estimated == pc \in {"precheck", "alloc", "forward", "gap", "hang", "fault", "done"}
             /\ status

\* The pixel p goes to the pixel target: the third component of its image is
\* not 0 and the rounded quotients are the coordinates of target.
MapsTo(p, target) ==
    /\ pout(transform_matrix, p[1], p[2])[3] # 0
    /\ Images(transform_matrix, p[1], p[2], sink_width, sink_height) = {target}

\* C8: for every classified anchor set and every destination size W x H with
\* W, H >= 1, the matrix written by make_transform_matrix takes bl to (0, 0),
\* br to (W, 0), tr to (W, H) and tl to (0, H) after division by the third
\* component and rounding.
C8_RoundTrip ==
    (Estimated /\ sink_width >= 1 /\ sink_height >= 1) =>
        /\ MapsTo(result.bl, <<0, 0>>)
        /\ MapsTo(result.br, <<sink_width, 0>>)
        /\ MapsTo(result.tr, <<sink_width, sink_height>>)
        /\ MapsTo(result.tl, <<0, sink_height>>)

\* perspector returned false.
ReturnedFalse == pc = "done" /\ ~ret

\* C9: whenever perspector returns false no cell of sink_data has been
\* written, and when the failure is a classification failure or a size
\* overflow the mask has not been allocated.
C9_FailureWritesNothing ==
    ReturnedFalse =>
        /\ DOMAIN sink_data = {}
        /\ (fail \in {"classification", "overflow"} => ~mask_allocated)

\* perspector returned false at the latest of its failure returns, the
\* allocation of the mask, after a successful classification.
C9_Witness == ReturnedFalse /\ fail = "alloc" /\ status

\* C10: when classification succeeded and sink_width >= 1 and
\* sink_height >= 1, the search of the gap-filling pass ends for every
\* unmarked cell: perspector never stays in a loop of the search.
C10_GapSearchTerminates ==
    (status /\ sink_width >= 1 /\ sink_height >= 1) => pc # "hang"

\* The forward pass has ended and the gap-filling pass has visited no cell.
AfterForward == pc = "gap" /\ gk = 0

\* The source pixels in scan order (x outermost), numbered from 0.
ScanCount == bg_width * bg_height
SrcAt(k) == <<k \div bg_height, k % bg_height>>
ImagesAt(k) ==
    Images(transform_matrix, SrcAt(k)[1], SrcAt(k)[2], sink_width, sink_height)
\* Source pixel k can go to cell c; it goes to c whatever the rounding does.
MayMap(k, c) == c \in ImagesAt(k)
MustMap(k, c) == ImagesAt(k) = {c}

\* C11: after the forward pass every destination cell that is the image of a
\* source pixel is marked and holds the value of the last pixel in scan order
\* that went to it, and a cell that is the image of no pixel is left unmarked
\* and unwritten.  (A pixel whose quotient can round two ways counts as going
\* to the cell it was rounded to: the value of a marked cell is the value of
\* a pixel k that can go there, and no pixel after k goes there for sure.)
C11_LastInScanOrderWins ==
    AfterForward =>
        /\ marked = DOMAIN sink_data
        /\ marked \subseteq Cells(sink_width, sink_height)
        /\ \A c \in Cells(sink_width, sink_height) :
            IF c \in marked
            THEN \E k \in 0..(ScanCount - 1) :
                    /\ sink_data[c] = bg_data(SrcAt(k)[1], SrcAt(k)[2])
                    /\ MayMap(k, c)
                    /\ \A q \in (k + 1)..(ScanCount - 1) : ~MustMap(q, c)
            ELSE \A q \in 0..(ScanCount - 1) : ~MustMap(q, c)

\* Two source pixels went to the same cell, which holds the value of the
\* later one, and another cell is the image of no pixel.
C11_Witness ==
    /\ AfterForward
    /\ \E c \in marked : \E k1, k2 \in 0..(ScanCount - 1) :
          /\ k1 < k2
          /\ MustMap(k1, c) /\ MustMap(k2, c)
          /\ sink_data[c] = bg_data(SrcAt(k2)[1], SrcAt(k2)[2])
    /\ Cells(sink_width, sink_height) \ marked # {}

\* The cells the gap-filling pass has filled: written but not marked.
Filled == DOMAIN sink_data \ marked

\* The marked cells of the border of a window, each once.
BorderHits(win, mask) == ColumnHits(win, mask) \cup RowHits(win, mask)

\* floor(S / n) over the marked cells of the border of the window of the
\* smallest radius >= 1 whose border holds a marked cell (-1 when no radius
\* has one).
RECURSIVE BorderMean(_, _, _)
BorderMean(x, y, radius) ==
    LET win == Window(x, y, radius, sink_width, sink_height)
        hits == BorderHits(win, marked)
    IN  IF hits # {}
        THEN SumOver(hits, sink_data) \div Cardinality(hits)
        ELSE IF win.x_min = 0 /\ win.y_min = 0 /\ win.x_max = sink_width - 1
                /\ win.y_max = sink_height - 1
        THEN -1
        ELSE BorderMean(x, y, radius + 1)

\* C12: every cell left unmarked by the forward pass is assigned floor(S / n),
\* n being the number of marked cells on the border of the clipped window of
\* the smallest radius that has one and S the sum of their values, each
\* marked border cell contributing once.
C12_MeanOfBorderOnce ==
    \A c \in Filled : sink_data[c] = BorderMean(c[1], c[2], 1)

\* w * h > COORD_MAX for 0 <= w, h <= COORD_MAX, by long multiplication in
\* base 65536 so that no intermediate value leaves 32 bits: the product is
\* (cross + lowq) * 65536 + a remainder below 65536.
ProductExceedsCoordMax(w, h) ==
    LET w1 == w \div 65536
        w0 == w % 65536
        h1 == h \div 65536
        h0 == h % 65536
        cross == w1 * h0 + w0 * h1
        a == w0 * (h0 \div 256)
        b == w0 * (h0 % 256)
        lowq == (a \div 256) + (((a % 256) * 256 + b) \div 65536)
    IN  /\ w # 0
        /\ h # 0
        /\ (w1 > 0 /\ h1 > 0) \/ cross + lowq >= 32768

\* C13: for classifiable anchors and every sink_width >= 0 and
\* sink_height >= 0 the size precheck is evaluated without fault before the
\* mask is allocated, and perspector fails there, without allocating, if and
\* only if sink_width * sink_height exceeds COORD_MAX.
C13_PrecheckSound ==
    (status /\ sink_width >= 0 /\ sink_height >= 0) =>
        /\ pc # "fault"
        /\ pc \notin {"entry", "precheck"} =>
             ((pc = "done" /\ fail = "overflow" /\ ~mask_allocated)
                <=> ProductExceedsCoordMax(sink_width, sink_height))

\* C15: when classification succeeded, after the forward pass the destination
\* cells that are the images of bl, br, tr and tl under the transform are all
\* marked.
C15_AnchorImagesMarked ==
    (AfterForward /\ status) =>
        \A i \in Idx :
            \E c \in Images(transform_matrix, Corners(result)[i][1],
                            Corners(result)[i][2], sink_width, sink_height) :
                c \in marked

\* The truncated mean the loops compute at the first radius with a hit when
\* they read marked cells only (-1 when no radius has a hit).
RECURSIVE MeanOfMarked(_, _, _)
MeanOfMarked(x, y, radius) ==
    LET win == Window(x, y, radius, sink_width, sink_height)
        cols == ColumnHits(win, marked)
        rows == RowHits(win, marked)
        count == Cardinality(cols) + Cardinality(rows)
    IN  IF count # 0
        THEN (SumOver(cols, sink_data) + SumOver(rows, sink_data)) \div count
        ELSE IF win.x_min = 0 /\ win.y_min = 0 /\ win.x_max = sink_width - 1
                /\ win.y_max = sink_height - 1
        THEN -1
        ELSE MeanOfMarked(x, y, radius + 1)

\* A step of the gap-filling pass leaves the mask and every written cell as
\* they are, and a cell it writes gets a value computed from the marked cells.
GapStepReadsMarkedOnly ==
    /\ marked' = marked
    /\ DOMAIN sink_data \subseteq DOMAIN sink_data'
    /\ \A c \in DOMAIN sink_data : sink_data'[c] = sink_data[c]
    /\ \A c \in DOMAIN sink_data' \ DOMAIN sink_data :
          /\ c \notin marked
          /\ sink_data'[c] = MeanOfMarked(c[1], c[2], 1)

\* C16: during the gap-filling pass the mask is never modified and no marked
\* cell is written; the value given to an unmarked cell is computed from cells
\* marked by the forward pass only, never from cells filled earlier in the
\* pass; and the pass starts only after the forward pass has processed its
\* last pixel.
C16_GapPassReadsForwardOnly ==
    [][ (pc = "gap" => (fk = ScanCount /\ GapStepReadsMarkedOnly))
        /\ (pc = "forward" => gk = 0) ]_vars

\* perspector returned after filling two cells, the second of which has the
\* first on the border of the window its search stopped at.
C16_Witness ==
    /\ pc = "done" /\ ret
    /\ \E c, d \in Filled :
          /\ c # d
          /\ c[1] * sink_height + c[2] < d[1] * sink_height + d[2]
          /\ c[1] - d[1] \in {-1, 1}
          /\ c[2] - d[2] \in {-1, 0, 1}
          /\ BorderHits(Window(d[1], d[2], 1, sink_width, sink_height),
                        marked) # {}

\* The matrix is singular: it sends a vertex of the rect to a vector whose
\* third component is 0, so the division that follows is undefined.
SingularMatrix ==
    \E i \in Idx :
        pout(transform_matrix, Corners(result)[i][1], Corners(result)[i][2])[3]
          = 0

\* C17: make_transform_matrix returns false when the decomposition fails or
\* the system is singular; it never returns true with a matrix whose values
\* are undefined.
C17_SingularIsFailure == Estimated => ~SingularMatrix

-----------------------------------------------------------------------------
(* Properties of the window *)

PairwiseDistinct(set) ==
    \A i, j \in 1..Len(set) : i # j => set[i] # set[j]

\* What one click may do to the set: a full set gains nothing, no click adds
\* a pixel that is already an anchor, and no click removes two anchors.
ClickStep ==
    /\ Len(anchors) = 4 => Range(anchors') \subseteq Range(anchors)
    /\ Len(anchors') > Len(anchors) =>
           /\ Len(anchors') = Len(anchors) + 1
           /\ Range(anchors) \subseteq Range(anchors')
    /\ Len(anchors') >= Len(anchors) - 1
    /\ Len(anchors') < Len(anchors) => Range(anchors') \subseteq Range(anchors)

\* C14: after any sequence of primary and secondary clicks the set holds at
\* most 4 anchors and they are pairwise distinct; an add on a full set is
\* rejected, an add on the pixel of an anchor changes nothing, and a remove
\* deletes at most one anchor.
C14_CountAndDistinct ==
    /\ [](Len(anchors) \in 0..4 /\ PairwiseDistinct(anchors))
    /\ [][ClickStep]_vars

\* A full set on which one more add was refused, after a removal.
C14_Witness ==
    /\ Len(anchors) = 4
    /\ label = "Max number of anchors reached."
    /\ added # anchors

\* The place of anchor a in the order of addition.
AddedIndex(a) == CHOOSE i \in 1..Len(added) : added[i] = a

\* A removal, seen from any secondary click that produces it, takes the
\* covered anchor that was added last and nothing else.
RemovesLastAdded ==
    \A p \in AnchorPixels : \A z \in ZoomValues :
        (/\ Len(anchors') < Len(anchors)
         /\ anchors' = secondary_click(anchors, p, hit_radius(z)))
        => LET covered == {a \in Range(anchors) : Covers(p, hit_radius(z), a)}
               removed == Range(anchors) \ Range(anchors')
           IN  /\ Cardinality(removed) = 1
               /\ removed \subseteq covered
               /\ \A a \in removed : \A b \in covered :
                      AddedIndex(b) <= AddedIndex(a)
               /\ Range(anchors') = Range(anchors) \ removed

\* C18: a secondary click whose hit box covers several anchors removes
\* exactly one of them, the most recently added of the covered anchors, and
\* all other anchors stay in the set.
C18_LastAddedErasedFirst == [][RemovesLastAdded]_vars

\* C19: event_write writes a raster only if the most recent Process event
\* succeeded and no successful Write has happened since: between two events
\* a sink is present only then, so after a Process that failed for any
\* reason, and after a successful Write, the sink is absent.
C19_SinkOnlyAfterSuccess ==
    (pc = "idle" /\ sink = "present") => last_process = "ok"

\* The sides of the bounding box of the anchors.
BoxWidth(set) ==
    LET xs == {set[i][1] : i \in 1..Len(set)}
    IN  (CHOOSE v \in xs : \A u \in xs : v >= u)
        - (CHOOSE v \in xs : \A u \in xs : v <= u)
BoxHeight(set) ==
    LET ys == {set[i][2] : i \in 1..Len(set)}
    IN  (CHOOSE v \in ys : \A u \in ys : v >= u)
        - (CHOOSE v \in ys : \A u \in ys : v <= u)

\* event_process has computed the size and calls perspector.
SizeComputed == pc = "entry" /\ Len(anchors) = 4

\* C20: the destination size is the bounding box of the anchors with only
\* one side enlarged, so that sink_width : sink_height is ratio_w : ratio_h
\* up to truncation (square for 1:1); no side is smaller than the bounding
\* box, and both are >= 1 when the anchors are classifiable.
C20_SizeFitsRatio ==
    SizeComputed =>
        LET bw == BoxWidth(anchors)
            bh == BoxHeight(anchors)
        IN  /\ sink_width >= bw
            /\ sink_height >= bh
            /\ \/ /\ sink_width = bw
                  /\ sink_height = (bw * ratio_h) \div ratio_w
               \/ /\ sink_height = bh
                  /\ sink_width = (bh * ratio_w) \div ratio_h
            /\ ratio_w = ratio_h => sink_width = sink_height
            /\ (\E c \in projectable(anchors) : c.status)
                   => (sink_width >= 1 /\ sink_height >= 1)

====
